---- MODULE Spec2Model ----
(***************************************************************************)
(* Model of app.js, the metro dashboard: the module-level state            *)
(* (metroData, allStations, currentStation, occupancyPercentage), the DOM  *)
(* elements the handlers write (results, suggestions, searchInput,         *)
(* lastUpdate), the feed callback and the user-event handlers.             *)
(*                                                                         *)
(* Representation of JavaScript values:                                    *)
(*   - a string that the code inspects character by character is a        *)
(*     sequence of one-character strings, <<"A","_","B">> for "A_B";       *)
(*   - a value that may be null/absent is a sequence of length 0 or 1;     *)
(*   - an object is the sequence of its entries in key (insertion) order;  *)
(*   - a wait sample is a record carrying either a number or a string.     *)
(***************************************************************************)
EXTENDS Integers, Sequences, FiniteSets, TLC

VARIABLES metroData, allStations, currentStation, occupancyPercentage,
          lastUpdate, results, suggestions, searchInput, event

vars == <<metroData, allStations, currentStation, occupancyPercentage,
          lastUpdate, results, suggestions, searchInput, event>>

----------------------------------------------------------------------------
(* Bounds of the model *)

\* most stations in one delivered payload
MaxStations == 2
\* longest wait-time sequence of a destination (SpecWait)
MaxSamples == 3
\* occupancy inputs range over -OccMargin .. 100 + OccMargin (SpecColor)
OccMargin == 30

----------------------------------------------------------------------------
(* Optional values and sequences *)

None == <<>>
Some(x) == <<x>>
IsSome(o) == Len(o) > 0
Get(o) == o[1]

Range(s) == {s[i] : i \in 1..Len(s)}

\* Array.prototype.filter: the kept elements, in their original order
FilterSeq(s, Keep(_)) ==
    LET I == {i \in 1..Len(s) : Keep(s[i])}
    IN  [k \in 1..Cardinality(I) |->
            s[CHOOSE i \in I : Cardinality({j \in I : j < i}) = k - 1]]

\* Array.prototype.map
MapSeq(s, F(_)) == [i \in 1..Len(s) |-> F(s[i])]

\* sequences over S of length lo..hi
SeqsOf(S, lo, hi) == UNION {[1..n -> S] : n \in lo..hi}

\* sequences over S without repetition
Distinct(s) == \A i, j \in 1..Len(s) : i # j => s[i] # s[j]

----------------------------------------------------------------------------
(* Strings: sequences of characters *)

\* UTF-16 code unit of the characters the model uses
Code(c) ==
    CASE c = " " -> 32
      [] c = "A" -> 65
      [] c = "B" -> 66
      [] c = "_" -> 95
      [] c = "a" -> 97
      [] c = "b" -> 98

\* String.prototype.toLowerCase
LowerChar(c) == CASE c = "A" -> "a" [] c = "B" -> "b" [] OTHER -> c
toLowerCase(s) == [i \in 1..Len(s) |-> LowerChar(s[i])]

\* String.prototype.trim
RECURSIVE TrimLeft(_)
TrimLeft(s) == IF s # <<>> /\ Head(s) = " " THEN TrimLeft(Tail(s)) ELSE s
RECURSIVE TrimRight(_)
TrimRight(s) ==
    IF s # <<>> /\ s[Len(s)] = " " THEN TrimRight(SubSeq(s, 1, Len(s) - 1)) ELSE s
trim(s) == TrimRight(TrimLeft(s))

\* s.replace(/_/g, ' ')
underscoresToSpaces(s) == [i \in 1..Len(s) |-> IF s[i] = "_" THEN " " ELSE s[i]]

\* s.replace(/ /g, '_')
spacesToUnderscores(s) == [i \in 1..Len(s) |-> IF s[i] = " " THEN "_" ELSE s[i]]

\* String.prototype.includes
includes(s, q) ==
    \E i \in 0..(Len(s) - Len(q)) : SubSeq(s, i + 1, i + Len(q)) = q

\* the order Array.prototype.sort() uses without a comparator: by code units
RECURSIVE StrLess(_, _)
StrLess(s, t) ==
    IF t = <<>> THEN FALSE
    ELSE IF s = <<>> THEN TRUE
    ELSE IF Code(Head(s)) # Code(Head(t)) THEN Code(Head(s)) < Code(Head(t))
    ELSE StrLess(Tail(s), Tail(t))

RECURSIVE InsertSorted(_, _)
InsertSorted(x, s) ==
    IF s = <<>> THEN <<x>>
    ELSE IF StrLess(Head(s), x) THEN <<Head(s)>> \o InsertSorted(x, Tail(s))
         ELSE <<x>> \o s

\* Array.prototype.sort()
RECURSIVE sort(_)
sort(s) == IF s = <<>> THEN <<>> ELSE InsertSorted(Head(s), sort(Tail(s)))

----------------------------------------------------------------------------
(* Feed payload *)

\* a wait sample: a number or a string
Num(n) == [num |-> TRUE, n |-> n, s |-> ""]
Str(s) == [num |-> FALSE, n |-> 0, s |-> s]

\* the value under a destination: an array of samples, or something else
Arr(a) == [isArray |-> TRUE, arr |-> a]
NotArr == [isArray |-> FALSE, arr |-> <<>>]

\* the value under a line name: an object of destinations, or a string
Dest(d, w) == [destination |-> d, waitTimes |-> w]
Obj(ds) == [isObj |-> TRUE, str |-> "", dests |-> ds]
StrVal(s) == [isObj |-> FALSE, str |-> s, dests |-> <<>>]
Line(l, v) == [line |-> l, val |-> v]

Station(k, e) == [station |-> k, entry |-> e]

Snapshot(ts, cwt, occ) ==
    [timestamp |-> ts, current_wait_times |-> cwt, Occupancy |-> occ]

\* Object.keys
StationKeys(cwt) == [i \in 1..Len(cwt) |-> cwt[i].station]
LineKeys(entry) == [i \in 1..Len(entry) |-> entry[i].line]

\* obj[key]: the value under the key, or nothing (undefined)
StationLookup(cwt, key) ==
    IF \E i \in 1..Len(cwt) : cwt[i].station = key
    THEN Some(cwt[CHOOSE i \in 1..Len(cwt) : cwt[i].station = key].entry)
    ELSE None

\* HasNA that takes only the bare marker {"NA": "NA"} for closed
HasOnlyNA(entry) ==
    Len(entry) = 1 /\ entry[1].line = "NA" /\ ~entry[1].val.isObj
        /\ entry[1].val.str = "NA"

\* stationData.NA === "NA"
HasNA(entry) ==
    \E i \in 1..Len(entry) :
        entry[i].line = "NA" /\ ~entry[i].val.isObj /\ entry[i].val.str = "NA"

----------------------------------------------------------------------------
(* Formatting helpers *)

lineColors(l) ==
    CASE l = "Azul" -> "#0066cc"
      [] l = "Verde" -> "#00a550"
      [] l = "Vermelha" -> "#e3000b"
      [] l = "Amarela" -> "#ffcc00"
      [] OTHER -> "#666"

Min(a, b) == IF a < b THEN a ELSE b
Max(a, b) == IF a > b THEN a ELSE b

\* Math.round(n / d) for d > 0: halves round up
RoundDiv(n, d) == (2 * n + d) \div (2 * d)

\* ClampPercent with the clamp left out
NoClamp(percentage) == percentage

\* Math.min(Math.max(percentage, 0), 100)
ClampPercent(percentage) == Min(Max(percentage, 0), 100)

\* the rgb(r,g,b) colour of an occupancy percentage
getOccupancyColor(percentage) ==
    LET c == ClampPercent(percentage)
    IN  IF c < 50
        THEN [r |-> RoundDiv(255 * c, 50), g |-> 180, b |-> 0]
        ELSE [r |-> 255, g |-> RoundDiv(180 * (100 - c), 50), b |-> 0]

DigitChar(d) == <<"0", "1", "2", "3", "4", "5", "6", "7", "8", "9">>[d + 1]

\* Number.prototype.toString of a natural number
RECURSIVE NatToString(_)
NatToString(n) ==
    IF n < 10 THEN <<DigitChar(n)>>
    ELSE NatToString(n \div 10) \o <<DigitChar(n % 10)>>

\* s.padStart(2, '0')
padStart2(s) == IF Len(s) < 2 THEN <<"0">> \o s ELSE s

\* `${minutes}:${seconds.toString().padStart(2, '0')}`
FormatTime(time) ==
    NatToString(time \div 60) \o <<":">> \o padStart2(NatToString(time % 60))

----------------------------------------------------------------------------
(* The results panel: what showStationList and displayStation write *)

View(kind, name, back, items, lines, totalLines, totalDestinations) ==
    [kind |-> kind, name |-> name, back |-> back, items |-> items,
     lines |-> lines, totalLines |-> totalLines,
     totalDestinations |-> totalDestinations]

Placeholder(kind) == View(kind, <<>>, FALSE, <<>>, <<>>, 0, 0)

\* the static markup of the page, before any handler has written to it
InitialView == Placeholder("initial")

\* one station of the list view
ListItem(cwt, station) ==
    LET stationData == StationLookup(cwt, station)
        isClosed == IsSome(stationData) /\ HasNA(Get(stationData))
        lines == IF IsSome(stationData)
                 THEN FilterSeq(LineKeys(Get(stationData)), LAMBDA k : k # "NA")
                 ELSE <<>>
    IN  [station |-> station,
         name |-> underscoresToSpaces(station),
         closed |-> isClosed,
         badges |-> MapSeq(lines, LAMBDA l : [line |-> l, color |-> lineColors(l)]),
         closedBadge |-> ~(Len(lines) > 0)]

showStationList(md, stations) ==
    IF ~IsSome(md) \/ ~IsSome(Get(md).current_wait_times)
    THEN Placeholder("loadingStations")
    ELSE View("list", <<>>, FALSE,
              MapSeq(stations,
                     LAMBDA st : ListItem(Get(Get(md).current_wait_times), st)),
              <<>>, 0, 0)

IsSentinel(t) == ~t.num /\ t.s \in {"--", "NA"}
IsValidTime(t) == t.num /\ t.n > 0

\* validTimesOf with the test t > 0 left out
numericTimesOf(waitTimes) == FilterSeq(waitTimes, LAMBDA t : t.num)

\* waitTimes.filter(t => typeof t === 'number' && t > 0)
validTimesOf(waitTimes) == FilterSeq(waitTimes, IsValidTime)

\* Math.max(...validTimes), or 0 when there is none
maxTimeOf(validTimes) ==
    IF Len(validTimes) > 0
    THEN CHOOSE m \in {validTimes[i].n : i \in 1..Len(validTimes)} :
             \A i \in 1..Len(validTimes) : validTimes[i].n <= m
    ELSE 0

\* one wait-time cell; darkness is the fraction darkNum / darkDen
WaitCell(t, maxTime, lineColor) ==
    IF IsSentinel(t)
    THEN [na |-> TRUE, text |-> <<"-", "-">>, darkNum |-> 0, darkDen |-> 1,
          color |-> ""]
    ELSE [na |-> FALSE, text |-> FormatTime(t.n),
          darkNum |-> IF maxTime > 0 THEN 7 * t.n ELSE 0,
          darkDen |-> IF maxTime > 0 THEN 10 * maxTime ELSE 1,
          color |-> lineColor]

\* one train icon; its left position is the fraction posNum / posDen percent
TrainIcon(t, maxTime, occupancy) ==
    [posNum |-> 5 * maxTime + t.n * 90, posDen |-> maxTime,
     color |-> getOccupancyColor(occupancy),
     wait |-> FormatTime(t.n), occupancy |-> occupancy]

\* one destination with a non-empty wait-time array
DestinationView(d, lineColor, occupancy) ==
    LET waitTimes == d.waitTimes.arr
        validTimes == validTimesOf(waitTimes)
        maxTime == maxTimeOf(validTimes)
    IN  [destination |-> underscoresToSpaces(d.destination),
         cells |-> MapSeq(FilterSeq(waitTimes,
                                    LAMBDA t : IsSentinel(t) \/ IsValidTime(t)),
                          LAMBDA t : WaitCell(t, maxTime, lineColor)),
         track |-> Len(validTimes) > 0,
         markers |-> MapSeq(validTimes,
                            LAMBDA t : TrainIcon(t, maxTime, occupancy))]

HasWaitData(d) == d.waitTimes.isArray /\ Len(d.waitTimes.arr) > 0

\* one line card of the detail view
LineCard(l, occupancy) ==
    LET lineColor == lineColors(l.line)
        withData == IF l.val.isObj THEN FilterSeq(l.val.dests, HasWaitData)
                    ELSE <<>>
    IN  [lineName |-> l.line, lineColor |-> lineColor,
         dests |-> MapSeq(withData,
                          LAMBDA d : DestinationView(d, lineColor, occupancy)),
         noData |-> Len(withData) = 0]

\* the key displayStation looks the station up under
ResolveKey(cwt, stationName) ==
    IF IsSome(StationLookup(cwt, stationName))
    THEN stationName
    ELSE spacesToUnderscores(stationName)

RECURSIVE SumDests(_)
SumDests(cards) ==
    IF cards = <<>> THEN 0 ELSE Len(Head(cards).dests) + SumDests(Tail(cards))

\* what displayStation writes to the results panel
DetailView(md, stationName, occupancy) ==
    IF ~IsSome(md) \/ ~IsSome(Get(md).current_wait_times)
    THEN Placeholder("loadingData")
    ELSE
      LET cwt == Get(Get(md).current_wait_times)
          stationData == StationLookup(cwt, ResolveKey(cwt, stationName))
          name == underscoresToSpaces(stationName)
      IN  IF ~IsSome(stationData) THEN Placeholder("notFound")
          ELSE IF HasNA(Get(stationData))
               THEN View("closed", name, FALSE, <<>>, <<>>, 0, 0)
          ELSE IF Len(Get(stationData)) = 0
               THEN View("noData", name, FALSE, <<>>, <<>>, 0, 0)
          ELSE
            LET cards == MapSeq(FilterSeq(Get(stationData),
                                          LAMBDA l : l.line # "NA"),
                                LAMBDA l : LineCard(l, occupancy))
            IN  View("detail", name, TRUE, <<>>, cards, Len(cards),
                     SumDests(cards))

----------------------------------------------------------------------------
(* State after construction *)

\* let occupancyPercentage = 50
DefaultOccupancy == 50

Event(op, data, arg) == [op |-> op, data |-> data, arg |-> arg]

NoSuggestions == [active |-> FALSE, items |-> <<>>, placeholder |-> FALSE]

Init ==
    /\ metroData = None
    /\ allStations = <<>>
    /\ currentStation = None
    /\ occupancyPercentage = DefaultOccupancy
    /\ lastUpdate = None
    /\ results = InitialView
    /\ suggestions = NoSuggestions
    /\ searchInput = <<>>
    /\ event = Event("init", None, None)

----------------------------------------------------------------------------
(* The feed callback *)

\* if (data): null is the only falsy payload the feed delivers
Truthy(payload) == IsSome(payload)

\* StationsOf with the sort left out: the keys in payload order
StationsOfUnsorted(data) ==
    StationKeys(IF IsSome(data.current_wait_times)
                THEN Get(data.current_wait_times) ELSE <<>>)

\* Object.keys(data.current_wait_times || {}).sort()
StationsOf(data) ==
    sort(StationKeys(IF IsSome(data.current_wait_times)
                     THEN Get(data.current_wait_times) ELSE <<>>))

\* updateLastUpdate: a missing or zero timestamp leaves the text alone
LastUpdateAfter(data, shown) ==
    IF IsSome(data.timestamp) /\ Get(data.timestamp) # 0
    THEN data.timestamp ELSE shown

\* OccupancyAfter falling back to the default instead of the previous value
OccupancyOrDefault(data, occupancy) ==
    IF IsSome(data.Occupancy) THEN Get(data.Occupancy) ELSE 50

\* if (data.Occupancy !== undefined) occupancyPercentage = data.Occupancy
OccupancyAfter(data, occupancy) ==
    IF IsSome(data.Occupancy) THEN Get(data.Occupancy) ELSE occupancy

\* if (currentStation): null and the empty string are falsy
StationSelected(station) == IsSome(station) /\ Get(station) # <<>>

\* Refresh that ignores the selection and always renders the list
RefreshListOnly(md, stations, station, occupancy) ==
    showStationList(md, stations)

\* the re-render that ends the callback
Refresh(md, stations, station, occupancy) ==
    IF StationSelected(station)
    THEN DetailView(md, Get(station), occupancy)
    ELSE showStationList(md, stations)

\* onValue(dataRef, snapshot => ...) with snapshot.val() = payload
Deliver(payload) ==
    /\ event' = Event("deliver", Some(payload), None)
    /\ IF Truthy(payload)
       THEN /\ metroData' = payload
            /\ allStations' = StationsOf(Get(payload))
            /\ lastUpdate' = LastUpdateAfter(Get(payload), lastUpdate)
            /\ occupancyPercentage' =
                   OccupancyAfter(Get(payload), occupancyPercentage)
            /\ results' = Refresh(metroData', allStations', currentStation,
                                  occupancyPercentage')
            /\ UNCHANGED <<currentStation, suggestions, searchInput>>
       ELSE UNCHANGED <<metroData, allStations, lastUpdate, occupancyPercentage,
                        results, currentStation, suggestions, searchInput>>

----------------------------------------------------------------------------
(* User events *)

\* Matches with the toLowerCase of the station left out
MatchesCaseSensitive(station, query) ==
    includes(underscoresToSpaces(station), query)

\* station.toLowerCase().replace(/_/g, ' ').includes(query)
Matches(station, query) ==
    includes(underscoresToSpaces(toLowerCase(station)), query)

\* e.target.value.toLowerCase().trim()
NormalizeQuery(value) == trim(toLowerCase(value))

\* the suggestion panel after an input event
SuggestionsFor(stations, query) ==
    IF query = <<>> THEN NoSuggestions
    ELSE LET filtered == FilterSeq(stations, LAMBDA st : Matches(st, query))
         IN  [active |-> TRUE, items |-> filtered,
              placeholder |-> Len(filtered) = 0]

\* searchInput 'input' listener; value is the text now in the box
TextInput(value) ==
    /\ searchInput' = value
    /\ suggestions' = SuggestionsFor(allStations, NormalizeQuery(value))
    /\ event' = Event("input", None, Some(value))
    /\ UNCHANGED <<metroData, allStations, currentStation, occupancyPercentage,
                   lastUpdate, results>>

\* displayStation storing the resolved key instead of the given name
displayStationResolved(stationName) ==
    /\ currentStation' =
         Some(IF IsSome(metroData) /\ IsSome(Get(metroData).current_wait_times)
              THEN ResolveKey(Get(Get(metroData).current_wait_times), stationName)
              ELSE stationName)
    /\ results' = DetailView(metroData, stationName, occupancyPercentage)

\* displayStation(stationName), up to the write of the results panel
displayStation(stationName) ==
    /\ currentStation' = Some(stationName)
    /\ results' = DetailView(metroData, stationName, occupancyPercentage)

\* click on the i-th suggestion of the open panel
SuggestionClick(i) ==
    /\ suggestions.active
    /\ i \in 1..Len(suggestions.items)
    /\ searchInput' = underscoresToSpaces(suggestions.items[i])
    /\ suggestions' = [suggestions EXCEPT !.active = FALSE]
    /\ displayStation(suggestions.items[i])
    /\ event' = Event("suggestion", None, Some(suggestions.items[i]))
    /\ UNCHANGED <<metroData, allStations, occupancyPercentage, lastUpdate>>

\* the document 'click' listener, reached by a click that bubbles up: it
\* closes the panel when the target lies outside .search-container
BubbledClick(outside) ==
    suggestions' = IF outside THEN [suggestions EXCEPT !.active = FALSE]
                   ELSE suggestions

\* click on the i-th item of the station list: selectStation(station)
ListItemClick(i, outside) ==
    /\ results.kind = "list"
    /\ i \in 1..Len(results.items)
    /\ searchInput' = underscoresToSpaces(results.items[i].station)
    /\ displayStation(results.items[i].station)
    /\ BubbledClick(outside)
    /\ event' = Event("select", None, Some(results.items[i].station))
    /\ UNCHANGED <<metroData, allStations, occupancyPercentage, lastUpdate>>

\* BackClick that shows the list but keeps the selection
BackClickKeepsSelection(outside) ==
    /\ results.back
    /\ currentStation' = currentStation
    /\ results' = showStationList(metroData, allStations)
    /\ BubbledClick(outside)
    /\ event' = Event("back", None, None)
    /\ UNCHANGED <<metroData, allStations, occupancyPercentage, lastUpdate,
                   searchInput>>

\* click on the back button of the detail view: window.goBack()
BackClick(outside) ==
    /\ results.back
    /\ currentStation' = None
    /\ results' = showStationList(metroData, allStations)
    /\ BubbledClick(outside)
    /\ event' = Event("back", None, None)
    /\ UNCHANGED <<metroData, allStations, occupancyPercentage, lastUpdate,
                   searchInput>>

\* click outside the search area, on nothing that has a handler of its own
ClickOutside ==
    /\ BubbledClick(TRUE)
    /\ event' = Event("outside", None, None)
    /\ UNCHANGED <<metroData, allStations, currentStation, occupancyPercentage,
                   lastUpdate, results, searchInput>>

----------------------------------------------------------------------------
(* Inputs *)

\* station identifiers: a name in space form and the same name in underscore
\* form; the lower-case name <<"b">> sorts after both
PairedNames == {<<"A", " ", "B">>, <<"A", "_", "B">>}

ClosedEntry == <<Line("NA", StrVal("NA"))>>
EmptyEntry == <<>>
OpenEntry ==
    <<Line("Verde", Obj(<<Dest(<<"X", "_", "Y">>,
                               Arr(<<Num(90), Num(30), Str("--")>>))>>)),
      Line("Azul", Obj(<<Dest(<<"Z">>, NotArr), Dest(<<"W">>, Arr(<<>>))>>))>>
\* the NA marker together with other fields
MixedEntry ==
    <<Line("Roxa", Obj(<<Dest(<<"X">>, Arr(<<Num(60)>>))>>)),
      Line("NA", StrVal("NA")),
      Line("Azul", StrVal("x"))>>

\* current_wait_times objects of at most MaxStations stations, in any key order
WaitTimesOver(stations) ==
    {cwt \in SeqsOf(stations, 0, MaxStations) : Distinct(StationKeys(cwt))}

\* every station of names with every entry of entries
StationsWith(names, entries) == {Station(k, e) : k \in names, e \in entries}

\* payloads: null, or a snapshot; every field of a snapshot may be missing
PayloadsOver(timestamps, stations, occupancies) ==
    {None} \cup
    {Some(Snapshot(ts, cwt, occ)) :
        ts \in timestamps,
        cwt \in {None} \cup {Some(c) : c \in WaitTimesOver(stations)},
        occ \in occupancies}

\* two open stations, whose names differ in space and underscore only, and a
\* third that is open or closed
Payloads ==
    PayloadsOver({None},
                 StationsWith(PairedNames, {OpenEntry})
                     \cup StationsWith({<<"b">>}, {OpenEntry, ClosedEntry}),
                 {None})

\* texts typed into the search box
Typed == {<<>>, <<"a">>, <<"B", " ">>}

\* the state the first delivery of a non-null payload leaves behind
AfterFirstDelivery(payload) ==
    /\ metroData = payload
    /\ allStations = StationsOf(Get(payload))
    /\ currentStation = None
    /\ occupancyPercentage = OccupancyAfter(Get(payload), DefaultOccupancy)
    /\ lastUpdate = LastUpdateAfter(Get(payload), None)
    /\ results = Refresh(metroData, allStations, None, occupancyPercentage)
    /\ suggestions = NoSuggestions
    /\ searchInput = <<>>
    /\ event = Event("deliver", Some(payload), None)

----------------------------------------------------------------------------
(* The application: feed deliveries interleaved with user events *)

Next ==
    \/ \E payload \in Payloads : Deliver(payload)
    \/ \E value \in Typed : TextInput(value)
    \/ \E i \in 1..MaxStations : SuggestionClick(i)
    \/ \E i \in 1..MaxStations, outside \in BOOLEAN : ListItemClick(i, outside)
    \/ \E outside \in BOOLEAN : BackClick(outside)
    \/ ClickOutside

Spec == Init /\ [][Next]_vars

----------------------------------------------------------------------------
(* The feed with its optional fields: timestamps and occupancies *)

FeedPayloads ==
    PayloadsOver({None, Some(0), Some(1)}, {Station(<<"b">>, OpenEntry)},
                 {None, Some(0), Some(75), Some(120)})

NextFeed ==
    \/ \E payload \in FeedPayloads : Deliver(payload)
    \/ \E i \in 1..MaxStations, outside \in BOOLEAN : ListItemClick(i, outside)
    \/ \E outside \in BOOLEAN : BackClick(outside)

SpecFeed == Init /\ [][NextFeed]_vars

----------------------------------------------------------------------------
(* The renderers over every kind of station entry *)

RenderPayloads ==
    PayloadsOver({None},
                 StationsWith(PairedNames,
                              {ClosedEntry, EmptyEntry, OpenEntry, MixedEntry})
                     \cup StationsWith({<<"b">>}, {OpenEntry}),
                 {None}) \ {None}

NextRender ==
    \/ \E payload \in RenderPayloads : Deliver(payload)
    \/ \E i \in 1..MaxStations, outside \in BOOLEAN : ListItemClick(i, outside)
    \/ \E outside \in BOOLEAN : BackClick(outside)

SpecRender == Init /\ [][NextRender]_vars

----------------------------------------------------------------------------
(* The search box over every short query *)

\* longest text typed into the search box
MaxQueryLen == 3

SearchNames == {<<"A", "_", "B">>, <<"a", " ", "b">>, <<"A", "b">>, <<"B">>}
QueryChars == {" ", "_", "A", "b"}
Queries == SeqsOf(QueryChars, 0, MaxQueryLen)

SearchPayloads ==
    PayloadsOver({None}, StationsWith(SearchNames, {OpenEntry}), {None}) \ {None}

InitSearch == \E payload \in SearchPayloads : AfterFirstDelivery(payload)

NextSearch == \E value \in Queries : TextInput(value)

SpecSearch == InitSearch /\ [][NextSearch]_vars

----------------------------------------------------------------------------
(* The wait-time cells and train icons over every short sample sequence *)

Samples ==
    {Num(90), Num(30), Num(5), Num(0), Num(-7), Str("--"), Str("NA"), Str("x")}

OneStation(entry, occupancy) ==
    Some(Snapshot(None, Some(<<Station(<<"b">>, entry)>>), occupancy))

WaitPayloads ==
    {OneStation(<<Line("Azul", Obj(<<Dest(<<"X">>, Arr(w))>>))>>, None) :
        w \in SeqsOf(Samples, 1, MaxSamples)}

InitWait == \E payload \in WaitPayloads : AfterFirstDelivery(payload)

NextWait ==
    \/ \E i \in 1..MaxStations, outside \in BOOLEAN : ListItemClick(i, outside)
    \/ \E outside \in BOOLEAN : BackClick(outside)

SpecWait == InitWait /\ [][NextWait]_vars

----------------------------------------------------------------------------
(* The occupancy colour over every percentage in and around 0..100 *)

ColorPayloads ==
    {OneStation(OpenEntry, Some(o)) : o \in (0 - OccMargin)..(100 + OccMargin)}

InitColor == \E payload \in ColorPayloads : AfterFirstDelivery(payload)

NextColor ==
    \/ \E i \in 1..MaxStations, outside \in BOOLEAN : ListItemClick(i, outside)
    \/ \E outside \in BOOLEAN : BackClick(outside)

SpecColor == InitColor /\ [][NextColor]_vars

----------------------------------------------------------------------------
(* Vocabulary of the properties, stated without the operators above *)

\* the payload of the delivery that led to this state
Delivered == Get(event.data)
DeliveredSnapshot == event.op = "deliver" /\ IsSome(Delivered)

\* the station keys and entries of the stored snapshot
StoredWaitTimes ==
    IF IsSome(metroData) /\ IsSome(Get(metroData).current_wait_times)
    THEN Get(Get(metroData).current_wait_times) ELSE <<>>
StoredKeys == {StoredWaitTimes[i].station : i \in 1..Len(StoredWaitTimes)}
EntryAt(k) ==
    (CHOOSE st \in Range(StoredWaitTimes) : st.station = k).entry

\* s comes before t in the order of their code units
LexBefore(s, t) ==
    \E k \in 1..Len(t) :
        /\ \A j \in 1..(k - 1) : j <= Len(s) /\ s[j] = t[j]
        /\ \/ k = Len(s) + 1
           \/ k <= Len(s) /\ Code(s[k]) < Code(t[k])

\* list holds exactly the members of keys, each once, in ascending order
IsSortedListOf(list, keys) ==
    /\ Range(list) = keys
    /\ \A i, j \in 1..Len(list) : i < j => LexBefore(list[i], list[j])

Underscored(name) == [i \in DOMAIN name |-> IF name[i] = " " THEN "_" ELSE name[i]]
Spaced(name) == [i \in DOMAIN name |-> IF name[i] = "_" THEN " " ELSE name[i]]

\* the results panel shows a station that was found
StationShown == results.kind \in {"closed", "noData", "detail"}
DetailShown ==
    results.kind \in {"loadingData", "notFound", "closed", "noData", "detail"}
ListShown == results.kind \in {"loadingStations", "list"}

----------------------------------------------------------------------------
(* C1 *)

\* C1 as stated: after every delivery, the null one included, the stored
\* snapshot is the delivered payload and the station list is the sorted list
\* of the keys of its current_wait_times.
C1_EveryDeliveryIsStored ==
    event.op = "deliver" =>
        /\ metroData = Delivered
        /\ IsSortedListOf(allStations, StoredKeys)

\* C1, amended: after the delivery of a payload that is not null the stored
\* snapshot is exactly that payload, and in every reachable state the station
\* list holds exactly the keys of the stored snapshot's current_wait_times,
\* each once, in ascending code-unit order (empty when there is none).
C1_DeliveryReplacesSnapshot ==
    /\ DeliveredSnapshot => metroData = Delivered
    /\ IsSortedListOf(allStations, StoredKeys)
    /\ Len(allStations) = Len(StoredWaitTimes)

\* a snapshot whose two keys arrive out of order has just been stored
C1_Witness ==
    /\ DeliveredSnapshot
    /\ metroData = Delivered
    /\ Len(allStations) = 2
    /\ allStations # StationKeys(StoredWaitTimes)

----------------------------------------------------------------------------
(* C2 *)

\* the view a delivery of payload must leave for the selection sel
ViewAgainst(payload, sel, occupancy) ==
    IF IsSome(sel)
    THEN DetailView(payload, Get(sel), occupancy)
    ELSE showStationList(payload,
                         IF IsSome(payload) THEN StationsOf(Get(payload)) ELSE <<>>)

\* C2 as stated: after every delivery, the null one included, the results panel
\* is the view chosen by the selection, computed against the delivered payload.
C2_EveryDeliveryRerenders ==
    event.op = "deliver" =>
        results = ViewAgainst(Delivered, currentStation, occupancyPercentage)

\* C2, amended: a delivery of a payload that is not null leaves the selection
\* unchanged and leaves the view chosen by it, computed against the delivered
\* payload: with a station selected, the detail view of that station ("station
\* not found" when neither its name nor the underscore form is a key of the new
\* snapshot); with none selected, the list of the new snapshot's stations.
C2_DeliveryRerenders ==
    [][(event'.op = "deliver" /\ IsSome(Get(event'.data))) =>
          /\ currentStation' = currentStation
          /\ results' = ViewAgainst(Get(event'.data), currentStation,
                                    occupancyPercentage')
          /\ IF IsSome(currentStation)
             THEN /\ DetailShown'
                  /\ IsSome(Get(metroData').current_wait_times) =>
                       (results'.kind = "notFound" <=>
                          /\ Get(currentStation) \notin StoredKeys'
                          /\ Underscored(Get(currentStation)) \notin StoredKeys')
             ELSE /\ ListShown'
                  /\ results'.kind = "list" =>
                       /\ Len(results'.items) = Len(allStations')
                       /\ \A i \in 1..Len(allStations') :
                            results'.items[i].station = allStations'[i]]_vars

\* a delivery has just re-rendered the selected station, which the new
\* snapshot no longer holds
C2_Witness ==
    /\ DeliveredSnapshot
    /\ IsSome(currentStation)
    /\ StoredKeys # {}
    /\ results.kind = "notFound"

----------------------------------------------------------------------------
(* C3 *)

\* C3 as stated: whenever a station is shown, the selection holds the key the
\* station was found under.
C3_SelectionIsResolvedKey ==
    StationShown => IsSome(currentStation) /\ Get(currentStation) \in StoredKeys

\* C3, amended: displaying a station sets the selection to the name as given,
\* not to the key it resolves to; the key (the name itself when it is a key,
\* else its underscore form) only selects the entry shown, and the name shown
\* is the given name with underscores as spaces.
C3_SelectionIsGivenName ==
    /\ event.op \in {"select", "suggestion"} => currentStation = event.arg
    /\ StationShown =>
         /\ IsSome(currentStation)
         /\ results.name = Spaced(Get(currentStation))
         /\ \/ Get(currentStation) \in StoredKeys
            \/ Underscored(Get(currentStation)) \in StoredKeys

\* a click has displayed the station "A B", found under the key "A_B"
C3_Witness ==
    /\ event.op = "suggestion"
    /\ event.arg = Some(<<"A", " ", "B">>)
    /\ StationShown
    /\ <<"A", " ", "B">> \notin StoredKeys
    /\ <<"A", "_", "B">> \in StoredKeys

----------------------------------------------------------------------------
(* C4 *)

\* C4: the selection changes only in a step that selects a station (to that
\* station) or goes back (to none); deliveries, text input and clicks outside
\* leave it unchanged; and while no station is selected after a go-back, the
\* results panel is the list view of the stored snapshot.
C4_SelectionFrame ==
    [][/\ event'.op \in {"select", "suggestion"} => currentStation' = event'.arg
       /\ event'.op = "back" => currentStation' = None /\ ListShown'
       /\ event'.op \in {"deliver", "input", "outside"} =>
            currentStation' = currentStation
       /\ (currentStation = None /\ currentStation' = None /\ ListShown) =>
            ListShown'
       /\ (currentStation' = None /\ results'.kind = "list") =>
            /\ Len(results'.items) = Len(allStations')
            /\ \A i \in 1..Len(allStations') :
                 results'.items[i].station = allStations'[i]]_vars

\* go-back has just cleared a selection and shown the list
C4_Witness ==
    /\ event.op = "back"
    /\ currentStation = None
    /\ results.kind = "list"
    /\ Len(results.items) = 2

----------------------------------------------------------------------------
(* C5 *)

\* the train icons of a detail view
TrainIcons(view) ==
    UNION {Range(d.markers) :
             d \in UNION {Range(card.dests) : card \in Range(view.lines)}}

\* C5: the occupancy percentage starts at 50; a delivered snapshot with an
\* Occupancy field sets it to that value; every other step (a snapshot without
\* the field, a null payload, a user event) leaves it unchanged; and the train
\* icons of a detail view re-rendered by a delivery carry the value and the
\* colour of the percentage as updated by that delivery.
C5_OccupancyFrame ==
    /\ occupancyPercentage = 50
    /\ [][/\ IF /\ event'.op = "deliver"
                /\ IsSome(Get(event'.data))
                /\ IsSome(Get(Get(event'.data)).Occupancy)
             THEN occupancyPercentage' = Get(Get(Get(event'.data)).Occupancy)
             ELSE occupancyPercentage' = occupancyPercentage
          /\ (event'.op = "deliver" /\ IsSome(Get(event'.data))
                /\ results'.kind = "detail") =>
               \A icon \in TrainIcons(results') :
                   /\ icon.occupancy = occupancyPercentage'
                   /\ icon.color = getOccupancyColor(occupancyPercentage')]_vars

\* a snapshot without Occupancy has just re-rendered a detail view, whose
\* icons still carry the 75 of an earlier snapshot
C5_Witness ==
    /\ DeliveredSnapshot
    /\ ~IsSome(Get(Delivered).Occupancy)
    /\ occupancyPercentage = 75
    /\ results.kind = "detail"
    /\ \E icon \in TrainIcons(results) : icon.occupancy = 75

----------------------------------------------------------------------------
(* C6 *)

\* the entry holds the field NA with the value "NA"
MarkedClosed(entry) == \E l \in Range(entry) : l.line = "NA" /\ l.val = StrVal("NA")

\* C6: with a snapshot that has current_wait_times stored and a station
\* selected, the results panel is "station not found" exactly when neither the
\* name nor its underscore form is a key; otherwise the entry is the one under
\* the name, or else under the underscore form, and the panel is the closed
\* message when that entry holds NA = "NA" (whatever else it holds), "no data
\* available" when it is empty, and the per-line detail in every other case.
C6_DetailClassification ==
    (/\ IsSome(currentStation)
     /\ IsSome(metroData)
     /\ IsSome(Get(metroData).current_wait_times)) =>
        LET name == Get(currentStation)
            key == IF name \in StoredKeys THEN name ELSE Underscored(name)
        IN  results.kind =
              IF key \notin StoredKeys THEN "notFound"
              ELSE IF MarkedClosed(EntryAt(key)) THEN "closed"
              ELSE IF EntryAt(key) = <<>> THEN "noData"
              ELSE "detail"

\* the closed message is shown for an entry with NA and two more fields
C6_Witness ==
    /\ IsSome(currentStation)
    /\ results.kind = "closed"
    /\ Get(currentStation) \in StoredKeys
    /\ Len(EntryAt(Get(currentStation))) = 3

----------------------------------------------------------------------------
(* C10 *)

\* the list presents the item as closed: by its class or by its badge
PresentedClosed(item) == item.closed \/ item.closedBadge

\* C10 as stated: in the list view a station is presented as closed exactly
\* when its entry holds the NA marker (so not when the entry is empty), and
\* its line badges are the keys of its entry other than "NA", in key order.
C10_ClosedIffSentinel ==
    results.kind = "list" =>
        \A i \in 1..Len(results.items) :
            LET item == results.items[i]
                entry == EntryAt(item.station)
                others == {j \in 1..Len(entry) : entry[j].line # "NA"}
            IN  /\ PresentedClosed(item) <=> MarkedClosed(entry)
                /\ Len(item.badges) = Cardinality(others)
                /\ \A j \in others :
                     item.badges[Cardinality({k \in others : k <= j})].line
                         = entry[j].line

----------------------------------------------------------------------------
(* C7 *)

\* the text of the input event that led to this state
TypedValue == Get(event.arg)

Lowered(v) ==
    [i \in DOMAIN v |-> IF v[i] = "A" THEN "a" ELSE IF v[i] = "B" THEN "b" ELSE v[i]]

\* v in lower case, from its first to its last character that is not a space
QueryOf(v) ==
    LET solid == {i \in 1..Len(v) : v[i] # " "}
    IN  IF solid = {} THEN <<>>
        ELSE SubSeq(Lowered(v),
                    CHOOSE i \in solid : \A j \in solid : i <= j,
                    CHOOSE i \in solid : \A j \in solid : j <= i)

\* q occurs in the lower-case display form of the station
OccursIn(q, station) ==
    \E off \in 0..(Len(station) - Len(q)) :
        \A j \in 1..Len(q) : Lowered(Spaced(station))[off + j] = q[j]

PositionOf(station) == CHOOSE k \in 1..Len(allStations) : allStations[k] = station

\* C7 as far as underscores in the query go: a query written with underscores
\* suggests the stations the same query written with spaces suggests.
C7_UnderscoreInsensitive ==
    event.op = "input" =>
        LET q == QueryOf(TypedValue)
        IN  (q # <<>> /\ q[1] # "_" /\ q[Len(q)] # "_") =>
              Range(suggestions.items) =
                  {st \in Range(allStations) : OccursIn(Spaced(q), st)}

\* C7, amended: after an input event, with the query in lower case and trimmed:
\* an empty query leaves the panel closed and empty; any other query opens it
\* on exactly the stations of the station list whose lower-case display form
\* (underscores as spaces) contains the query, in the order of the list, or on
\* the "no stations found" placeholder when there is none. Letter case never
\* matters and a space in the query matches an underscore of an identifier,
\* but an underscore in the query matches nothing.
C7_Suggestions ==
    event.op = "input" =>
        LET q == QueryOf(TypedValue)
            matching == {st \in Range(allStations) : OccursIn(q, st)}
            items == suggestions.items
        IN  IF q = <<>>
            THEN ~suggestions.active /\ items = <<>> /\ ~suggestions.placeholder
            ELSE /\ suggestions.active
                 /\ Range(items) = matching
                 /\ \A i, j \in 1..Len(items) :
                      i < j => PositionOf(items[i]) < PositionOf(items[j])
                 /\ suggestions.placeholder <=> matching = {}
                 /\ "_" \in Range(q) => items = <<>>

\* "A b" was typed over the stations A_B and "a b": both are suggested
C7_Witness ==
    /\ event.op = "input"
    /\ TypedValue = <<"A", " ", "b">>
    /\ suggestions.items = <<<<"A", "_", "B">>, <<"a", " ", "b">>>>

----------------------------------------------------------------------------
(* C8 *)

\* r is n / d rounded to the nearest integer, halves upwards
IsRounded(r, n, d) == d * (2 * r - 1) <= 2 * n /\ 2 * n < d * (2 * r + 1)

\* C8: the colour of every train icon is the two-segment colour of the
\* occupancy percentage p clamped to c in 0..100: blue 0; for c < 50 green 180
\* and red 255*c/50 rounded; for c >= 50 red 255 and green 180*(100-c)/50
\* rounded. So p <= 0 gives (0,180,0), p = 50 gives (255,180,0) and p >= 100
\* gives (255,0,0).
C8_OccupancyColor ==
    results.kind = "detail" =>
        \A icon \in TrainIcons(results) :
            LET p == occupancyPercentage
                c == IF p < 0 THEN 0 ELSE IF p > 100 THEN 100 ELSE p
                col == icon.color
            IN  /\ col.b = 0
                /\ c < 50 => col.g = 180 /\ IsRounded(col.r, 255 * c, 50)
                /\ c >= 50 => col.r = 255 /\ IsRounded(col.g, 180 * (100 - c), 50)
                /\ p <= 0 => col = [r |-> 0, g |-> 180, b |-> 0]
                /\ p = 50 => col = [r |-> 255, g |-> 180, b |-> 0]
                /\ p >= 100 => col = [r |-> 255, g |-> 0, b |-> 0]

\* icons are shown for an occupancy of 130, in the colour of 100
C8_Witness ==
    /\ results.kind = "detail"
    /\ occupancyPercentage = 130
    /\ \E icon \in TrainIcons(results) : icon.color = [r |-> 255, g |-> 0, b |-> 0]

----------------------------------------------------------------------------
(* C9 *)

DigitValue(ch) == CHOOSE d \in 0..9 : DigitChar(d) = ch
IsDigit(ch) == \E d \in 0..9 : DigitChar(d) = ch

RECURSIVE DigitsValue(_)
DigitsValue(text) ==
    IF text = <<>> THEN 0
    ELSE 10 * DigitsValue(SubSeq(text, 1, Len(text) - 1)) + DigitValue(text[Len(text)])

\* text reads minutes ":" seconds, the seconds in two digits, for n seconds
ReadsAsMinSec(text, n) ==
    /\ Len(text) >= 4
    /\ text[Len(text) - 2] = ":"
    /\ \A i \in 1..Len(text) : i # Len(text) - 2 => IsDigit(text[i])
    /\ Len(text) > 4 => text[1] # "0"
    /\ DigitsValue(SubSeq(text, 1, Len(text) - 3)) * 60
         + DigitsValue(SubSeq(text, Len(text) - 1, Len(text))) = n
    /\ DigitsValue(SubSeq(text, Len(text) - 1, Len(text))) < 60

\* the wait-time sequence of the single destination of the stored snapshot
StoredSamples == StoredWaitTimes[1].entry[1].val.dests[1].waitTimes.arr

\* the number of members of I up to i
RankIn(I, i) == Cardinality({k \in I : k <= i})

\* C9: for a destination with a non-empty sequence, the cells are the samples
\* that are "--", "NA" or a positive number, in their order: unavailable for
\* the two strings, minutes:seconds with two-digit seconds for a number; and
\* there is one train icon per positive number, in order, at 5 + 90*time/max
\* percent, max being the largest positive number: above 5, at most 95, and 95
\* for the largest. [90, 30, "--"] gives 1:30, 0:30, unavailable and icons at
\* 95 and 35.
C9_CellsAndIcons ==
    results.kind = "detail" =>
        LET w == StoredSamples
            d == results.lines[1].dests[1]
            sentinels == {i \in 1..Len(w) : w[i] \in {Str("--"), Str("NA")}}
            valid == {i \in 1..Len(w) : w[i].num /\ w[i].n > 0}
            shown == sentinels \cup valid
            largest == IF valid = {} THEN 0
                       ELSE CHOOSE m \in {w[i].n : i \in valid} :
                                \A i \in valid : w[i].n <= m
        IN  /\ Len(d.cells) = Cardinality(shown)
            /\ \A i \in sentinels :
                 d.cells[RankIn(shown, i)].na /\ d.cells[RankIn(shown, i)].text = <<"-", "-">>
            /\ \A i \in valid :
                 /\ ~d.cells[RankIn(shown, i)].na
                 /\ ReadsAsMinSec(d.cells[RankIn(shown, i)].text, w[i].n)
            /\ Len(d.markers) = Cardinality(valid)
            /\ d.track <=> valid # {}
            /\ \A i \in valid :
                 LET icon == d.markers[RankIn(valid, i)]
                 IN  /\ icon.posDen > 0
                     /\ icon.posNum * largest = icon.posDen * (5 * largest + 90 * w[i].n)
                     /\ 5 * icon.posDen < icon.posNum
                     /\ icon.posNum <= 95 * icon.posDen
                     /\ w[i].n = largest => icon.posNum = 95 * icon.posDen
            /\ w = <<Num(90), Num(30), Str("--")>> =>
                 /\ [i \in 1..3 |-> d.cells[i].text] =
                        <<<<"1", ":", "3", "0">>, <<"0", ":", "3", "0">>, <<"-", "-">>>>
                 /\ d.markers[1].posNum = 95 * d.markers[1].posDen
                 /\ d.markers[2].posNum = 35 * d.markers[2].posDen

\* the detail view of the sequence [90, 30, "--"]: three cells, two icons
C9_Witness ==
    /\ results.kind = "detail"
    /\ StoredSamples = <<Num(90), Num(30), Str("--")>>
    /\ Len(results.lines[1].dests[1].cells) = 3
    /\ Len(results.lines[1].dests[1].markers) = 2

====
